---- MODULE Spec2Model ----
(***************************************************************************)
(* State-machine model of FastSyncTapMySql                                 *)
(* (pipelinewise/fastsync/commons/tap_mysql.py): the connection manager    *)
(* (get_connection_parameters, open_connections, run_session_sqls,         *)
(* close_connections, query) and the replication position resolver         *)
(* (fetch_current_log_pos and the methods it calls).                       *)
(*                                                                         *)
(* Python calls are modelled by an explicit call stack of frames; the      *)
(* database client (pymysql) and the servers are the environment: each     *)
(* execution of a statement and each connect has a nondeterministic        *)
(* outcome.  Python strings that the code takes apart (GTID sets, port     *)
(* numbers given as text) are sequences of one-character strings.          *)
(***************************************************************************)
EXTENDS Integers, Sequences, FiniteSets, TLC

VARIABLES
    connection_config,  \* self.connection_config: a dict (function on its keys)
    conn,               \* self.conn: 0 is None, else an index into sessions
    conn_unbuffered,    \* self.conn_unbuffered: 0 is None, else an index
    is_replica,         \* self.is_replica
    sessions,           \* every pymysql connection created so far
    stack,              \* the Python call stack, innermost frame last
    ret,                \* value returned / exception raised by the last frame
    faults,             \* failures the environment has injected so far
    calls,              \* top-level calls made so far
    obs,                \* history of the current top-level call
    arg,                \* the input of the current top-level call
    export              \* copy_table: its cursor, its sink, its locals, the log

vars == <<connection_config, conn, conn_unbuffered, is_replica, sessions,
          stack, ret, faults, calls, obs, arg, export>>

self_vars == <<connection_config, conn, conn_unbuffered, is_replica>>

-----------------------------------------------------------------------------
(* Bounds of the model *)

\* failures (connectivity or other) the environment injects in one behaviour
MaxFaults == 2
\* the largest export_batch_rows and the largest result set of the fetch loop
MaxBatch == 3
MaxCopyRows == 5
\* top-level calls in one behaviour
MaxCalls == 3
\* largest n_retry a caller passes to query()
MaxRetry == 1
\* entries of a GTID set
MaxEntries == 3
\* rows of the table copy_table exports
MaxRows == 2

-----------------------------------------------------------------------------
(* Python helpers *)

\* dict.get(k, default)
Get(d, k, default) == IF k \in DOMAIN d THEN d[k] ELSE default

\* dict.get(k): None when the key is absent
GetOrNone(d, k) == Get(d, k, "None")

DigitVal(c) ==
    CASE c = "0" -> 0 [] c = "1" -> 1 [] c = "2" -> 2 [] c = "3" -> 3
      [] c = "4" -> 4 [] c = "5" -> 5 [] c = "6" -> 6 [] c = "7" -> 7
      [] c = "8" -> 8 [] c = "9" -> 9

DigitChar(n) ==
    CASE n = 0 -> "0" [] n = 1 -> "1" [] n = 2 -> "2" [] n = 3 -> "3"
      [] n = 4 -> "4" [] n = 5 -> "5" [] n = 6 -> "6" [] n = 7 -> "7"
      [] n = 8 -> "8" [] n = 9 -> "9"

RECURSIVE StrToInt(_)
StrToInt(s) ==
    IF Len(s) = 0 THEN 0
    ELSE 10 * StrToInt(SubSeq(s, 1, Len(s) - 1)) + DigitVal(s[Len(s)])

\* int(x): x is an int already, or a decimal string
PyInt(x) == IF x.t = "int" THEN x.v ELSE StrToInt(x.v)

RECURSIVE IntToStr(_)
\* str(n) for n >= 0
IntToStr(n) ==
    IF n < 10 THEN <<DigitChar(n)>>
    ELSE IntToStr(n \div 10) \o <<DigitChar(n % 10)>>

-----------------------------------------------------------------------------
(* Configuration *)

DEFAULT_CHARSET == "utf8"
DEFAULT_EXPORT_BATCH_ROWS == 50000
MARIADB_ENGINE == "mariadb"
MYSQL_ENGINE == "mysql"
DEFAULT_USE_GTID == FALSE
\* the default list has four statements; the model keeps two of them
DEFAULT_SESSION_SQLS == <<"SET time_zone", "SET wait_timeout">>

ReplicaKeys == {"replica_host", "replica_port", "replica_user", "replica_password"}

\* a port as the configuration file gives it: a number or its text
PrimaryPorts == {[t |-> "int", v |-> 33], [t |-> "str", v |-> <<"3", "3">>]}
ReplicaPorts == {[t |-> "int", v |-> 34], [t |-> "str", v |-> <<"3", "4">>]}

\* the configuration after __init__ has filled in the defaults
BaseConfig(port, use_gtid, engine, session_sqls) ==
    [host |-> "primary.host", port |-> port, user |-> "puser",
     password |-> "ppass", charset |-> DEFAULT_CHARSET,
     export_batch_rows |-> DEFAULT_EXPORT_BATCH_ROWS, session_sqls |-> session_sqls,
     use_gtid |-> use_gtid, engine |-> engine]

ReplicaPart(keys, rport) ==
    [k \in keys |->
        CASE k = "replica_host" -> "replica.host"
          [] k = "replica_port" -> rport
          [] k = "replica_user" -> "ruser"
          [] k = "replica_password" -> "rpass"]

\* every combination of present replica fields and port spellings
AllConfigs ==
    {BaseConfig(p, DEFAULT_USE_GTID, MYSQL_ENGINE, DEFAULT_SESSION_SQLS)
        @@ ReplicaPart(keys, rp) :
        p \in PrimaryPorts, keys \in SUBSET ReplicaKeys, rp \in ReplicaPorts}

is_mariadb(cfg) == cfg["engine"] = MARIADB_ENGINE

get_connection_parameters_ignore_flag(cfg, prioritize_primary) ==
    <<[host |-> Get(cfg, "replica_host", cfg["host"]),
       port |-> PyInt(Get(cfg, "replica_port", cfg["port"])),
       user |-> Get(cfg, "replica_user", cfg["user"]),
       password |-> Get(cfg, "replica_password", cfg["password"]),
       charset |-> cfg["charset"]],
      "replica_host" \in DOMAIN cfg>>

\* returns <<conn_params, is_replica>>
get_connection_parameters(cfg, prioritize_primary) ==
    IF prioritize_primary
    THEN <<[host |-> cfg["host"],
            port |-> PyInt(cfg["port"]),
            user |-> cfg["user"],
            password |-> cfg["password"],
            charset |-> cfg["charset"]],
           FALSE>>
    ELSE <<[host |-> Get(cfg, "replica_host", cfg["host"]),
            port |-> PyInt(Get(cfg, "replica_port", cfg["port"])),
            user |-> Get(cfg, "replica_user", cfg["user"]),
            password |-> Get(cfg, "replica_password", cfg["password"]),
            charset |-> cfg["charset"]],
           "replica_host" \in DOMAIN cfg>>

-----------------------------------------------------------------------------
(* Python strings as sequences of characters *)

\* a str value that may be None (a NULL column)
PyNone == [none |-> TRUE, s |-> <<>>]
PyStr(s) == [none |-> FALSE, s |-> s]

RECURSIVE PySplit(_, _)
\* s.split(sep) for a one-character separator: always at least one part
PySplit(s, sep) ==
    IF \A k \in 1..Len(s) : s[k] # sep THEN <<s>>
    ELSE LET k == CHOOSE j \in 1..Len(s) :
                      s[j] = sep /\ \A m \in 1..(j - 1) : s[m] # sep
         IN  <<SubSeq(s, 1, k - 1)>> \o PySplit(SubSeq(s, k + 1, Len(s)), sep)

IsSpace(c) == c \in {" ", "\n"}

RECURSIVE PyStrip(_)
\* s.strip()
PyStrip(s) ==
    IF Len(s) = 0 THEN s
    ELSE IF IsSpace(s[1]) THEN PyStrip(SubSeq(s, 2, Len(s)))
    ELSE IF IsSpace(s[Len(s)]) THEN PyStrip(SubSeq(s, 1, Len(s) - 1))
    ELSE s

-----------------------------------------------------------------------------
(* Return values and exceptions *)

NoRet == [kind |-> "none", v |-> "None"]
Val(v) == [kind |-> "val", v |-> v]
Raise(cls, msg) == [kind |-> "exc", v |-> [cls |-> cls, msg |-> msg]]

MsgBinlogNotEnabled == "MySQL binary logging is not enabled."
MsgGtidNotEnabled == "GTID is not enabled."
MsgGtidModeNotEnabled == "GTID mode is not enabled."
MsgNoGtidExecuted == "No GTID was found with @@GLOBAL.gtid_executed."
MsgNoSuitableGtid == "No suitable GTID was found."
\* '{} table not found.'.format(table_name) for the table 'db.t'
MsgTableNotFound == "db.t table not found."

-----------------------------------------------------------------------------
(* The loops of __find_mariadb_gtid_pos and __find_mysql_gtid_pos *)

find_mariadb_entry_no_length_check(gtid, server_id) ==
    LET gtid_parts == PySplit(gtid, "-")
    IN  /\ Len(gtid) # 0
        /\ Len(gtid_parts) >= 2
        /\ gtid_parts[2] = server_id

\* the body of the for loop, for the stripped entry: TRUE when it returns
find_mariadb_entry(gtid, server_id) ==
    LET gtid_parts == PySplit(gtid, "-")
    IN  /\ Len(gtid) # 0
        /\ Len(gtid_parts) = 3
        /\ gtid_parts[2] = server_id

RECURSIVE find_mariadb_loop(_, _, _)
\* for gtid in gtids.split(','), from entry k on
find_mariadb_loop(entries, k, server_id) ==
    IF k > Len(entries) THEN Raise("Exception", MsgNoSuitableGtid)
    ELSE LET gtid == PyStrip(entries[k])
         IN  IF find_mariadb_entry(gtid, server_id)
             THEN Val([gtid |-> gtid])
             ELSE find_mariadb_loop(entries, k + 1, server_id)

\* gtids is result[0]['current_gtids']; None has no split()
find_mariadb_gtid(gtids, server_id) ==
    IF gtids.none THEN Raise("AttributeError", "NoneType has no attribute split")
    ELSE find_mariadb_loop(PySplit(gtids.s, ","), 1, server_id)

find_mysql_entry(gtid, server_uuid) ==
    LET gtid_parts == PySplit(gtid, ":")
    IN  /\ Len(gtid) # 0
        /\ Len(gtid_parts) = 2
        /\ gtid_parts[1] = server_uuid

RECURSIVE find_mysql_loop(_, _, _)
find_mysql_loop(entries, k, server_uuid) ==
    IF k > Len(entries) THEN Raise("Exception", MsgNoSuitableGtid)
    ELSE LET gtid == PyStrip(entries[k])
         IN  IF find_mysql_entry(gtid, server_uuid)
             THEN Val([gtid |-> gtid])
             ELSE find_mysql_loop(entries, k + 1, server_uuid)

find_mysql_gtid(gtids, server_uuid) ==
    IF gtids.none THEN Raise("AttributeError", "NoneType has no attribute split")
    ELSE find_mysql_loop(PySplit(gtids.s, ","), 1, server_uuid)

-----------------------------------------------------------------------------
(* Statements and the servers' answers *)

SqlUser == "SELECT 1 FROM t"
SqlSlaveStatus == "SHOW SLAVE STATUS"
SqlMasterStatus == "SHOW MASTER STATUS"
SqlServerId == "select @@server_id as server_id;"
SqlServerUuid == "select @@server_uuid as server_uuid;"
SqlGtidSlavePos == "select @@gtid_slave_pos as current_gtids;"
SqlGtidCurrentPos == "select @@gtid_current_pos as current_gtids;"
SqlGtidMode == "select @@gtid_mode as gtid_mode;"
SqlGtidExecuted == "select @@GLOBAL.gtid_executed as current_gtids;"
\* the statement of get_table_columns and the SELECT of copy_table
SqlColumns == "SELECT column_name, ... FROM information_schema.columns"
SqlSelect == "SELECT ... FROM db.t"

GtidSqls == {SqlGtidSlavePos, SqlGtidCurrentPos, SqlGtidMode, SqlGtidExecuted}
StatusSqls == {SqlSlaveStatus, SqlMasterStatus}

IsPrimaryEndpoint(params) == params.host = "primary.host"

\* @@server_id and @@server_uuid of the two servers
ServerIdOf(params) == IF IsPrimaryEndpoint(params) THEN 1 ELSE 12
ServerUuidOf(params) == IF IsPrimaryEndpoint(params) THEN <<"a">> ELSE <<"b">>

MasterStatusAnswers ==
    {<<>>,
     <<[File |-> "binlog.000002", Position |-> "914"]>>,
     <<[File |-> "binlog.000002", Position |-> "914", version |-> 2]>>,
     <<[Position |-> "914"]>>}

SlaveStatusAnswers ==
    {<<>>,
     <<[Master_Log_File |-> "binlog.000007", Read_Master_Log_Pos |-> "120"]>>,
     <<[Master_Log_File |-> "binlog.000007", Read_Master_Log_Pos |-> "120",
        version |-> 2]>>,
     <<[Master_Log_File |-> "binlog.000007"]>>}

\* MariaDB GTID positions: NULL, '', '0-1-5', '0-12-7,0-1-5'
MariadbPositions ==
    {PyNone, PyStr(<<>>), PyStr(<<"0", "-", "1", "-", "5">>),
     PyStr(<<"0", "-", "1", "2", "-", "7", ",", "0", "-", "1", "-", "5">>)}

\* MySQL executed GTID sets: NULL, '', 'a:1', 'b:3,a:1'
MysqlPositions ==
    {PyNone, PyStr(<<>>), PyStr(<<"a", ":", "1">>),
     PyStr(<<"b", ":", "3", ",", "a", ":", "1">>)}

\* what cur.execute + fetchall can give for a statement on a live session
Answers(sql, params) ==
    CASE sql = SqlUser -> {<<>>, <<[c |-> "v"]>>}
      [] sql = SqlMasterStatus -> MasterStatusAnswers
      [] sql = SqlSlaveStatus -> SlaveStatusAnswers
      [] sql = SqlServerId -> {<<[server_id |-> ServerIdOf(params)]>>}
      [] sql = SqlServerUuid -> {<<[server_uuid |-> ServerUuidOf(params)]>>}
      [] sql \in {SqlGtidSlavePos, SqlGtidCurrentPos} ->
            {<<>>} \cup {<<[current_gtids |-> g]>> : g \in MariadbPositions}
      [] sql = SqlGtidMode ->
            {<<>>, <<[gtid_mode |-> "ON"]>>, <<[gtid_mode |-> "OFF"]>>}
      [] sql = SqlGtidExecuted ->
            {<<>>} \cup {<<[current_gtids |-> g]>> : g \in MysqlPositions}
      [] sql = SqlColumns ->
            {<<>>,
             <<[column_name |-> "id", data_type |-> "int",
                column_type |-> "int(11)", safe_sql_value |-> "id"]>>}
      [] OTHER -> {<<>>}

-----------------------------------------------------------------------------
(* Sessions (pymysql connections) *)

\* pymysql.connect(**params): a new live connection
NewSession(params, aux) == [params |-> params, st |-> "open", aux |-> aux]

\* c.close(): raises on None and on a connection that was closed before
CloseRaises(ss, c) == c = 0 \/ ss[c].st = "closed"
CloseOne(ss, c) == [ss EXCEPT ![c].st = "closed"]

\* the try block of close_connections: the sessions afterwards, whether the
\* except branch was taken, and the sessions close() was called on
close_connections(ss, c, cu) ==
    IF CloseRaises(ss, c)
    THEN [ss |-> ss, raised |-> TRUE, tried |-> {c} \ {0}]
    ELSE IF CloseRaises(CloseOne(ss, c), cu)
         THEN [ss |-> CloseOne(ss, c), raised |-> TRUE,
               tried |-> {c, cu} \ {0}]
         ELSE [ss |-> CloseOne(CloseOne(ss, c), cu), raised |-> FALSE,
               tried |-> {c, cu}]

close_logs_when_silent(raised, silent) == raised

\* the except branch: "if not silent: LOGGER.exception(exc)"
close_logs(raised, silent) == raised /\ ~silent

-----------------------------------------------------------------------------
(* Call stack *)

Frame(op, pc) ==
    [op |-> op, pc |-> pc, sql |-> "", conn |-> 0, n_retry |-> 0, i |-> 0,
     aux |-> 0, val |-> PyNone]

\* query(sql, conn, n_retry=...): "if conn is None: conn = self.conn"
query_frame(sql, c, n_retry, self_conn) ==
    [Frame("query", "exec") EXCEPT
        !.sql = sql, !.conn = IF c = 0 THEN self_conn ELSE c,
        !.n_retry = n_retry]

Top == stack[Len(stack)]
Pop == SubSeq(stack, 1, Len(stack) - 1)
Running(op, pc) == Len(stack) > 0 /\ Top.op = op /\ Top.pc = pc
Idle == Len(stack) = 0

\* the top-level call has returned or raised
Done == Idle /\ ret.kind # "none"

-----------------------------------------------------------------------------
(* History of the current top-level call *)

ObsInit ==
    [nOpen |-> 0, nClose |-> 0, nFail |-> 0, nExec |-> 0,
     first |-> "none", execd |-> {}, res |-> <<>>,
     closeLog |-> 0, closeOn |-> {}, closeTried |-> {}, openBase |-> 0,
     idPre |-> [conn |-> 0, conn_unbuffered |-> 0, is_replica |-> FALSE,
                sessions |-> <<>>, nOpen |-> 0, nClose |-> 0, nFail |-> 0],
     pre |-> [conn |-> 0, conn_unbuffered |-> 0, is_replica |-> FALSE,
              sessions |-> <<>>]]

\* the history at the start of a top-level call: the instance as it is
ObsStart ==
    [ObsInit EXCEPT !.pre = [conn |-> conn, conn_unbuffered |-> conn_unbuffered,
                             is_replica |-> is_replica, sessions |-> sessions]]

ObsOk(o, sql, sid, rows) ==
    [o EXCEPT !.execd = @ \cup {<<sql, sid>>},
              !.nExec = @ + 1,
              !.first = IF @ = "none" THEN "ok" ELSE @,
              !.res = (sql :> [sid |-> sid, rows |-> rows]) @@ @]

ObsFail(o, sql, sid, cls) ==
    [o EXCEPT !.execd = IF sid = 0 THEN @ ELSE @ \cup {<<sql, sid>>},
              !.nExec = IF sid = 0 THEN @ ELSE @ + 1,
              !.first = IF @ = "none" THEN cls ELSE @,
              !.nFail = @ + 1]

\* open_connections is called: the sessions created so far
ObsOpen(o) == [o EXCEPT !.nOpen = @ + 1, !.openBase = Len(sessions)]

\* close_connections(silent) ran on sessions c and cu with outcome r
ObsClose(o, c, cu, r, silent) ==
    [o EXCEPT !.nClose = @ + 1,
              !.closeLog = IF close_logs(r.raised, silent) THEN @ + 1 ELSE @,
              !.closeOn = {c, cu} \ {0},
              !.closeTried = r.tried]

\* the arguments of the current top-level call
ArgOf(op) ==
    [op |-> op, n_retry |-> 0, conn |-> 0, silent |-> FALSE,
     prioritize_primary |-> FALSE, gtids |-> PyNone, id |-> <<>>]

-----------------------------------------------------------------------------
(* query *)

\* def query(..., n_retry=1)
DEFAULT_N_RETRY == 1

should_retry_also_at_zero(n_retry) == n_retry >= 0

\* if n_retry > 0
should_retry(n_retry) == n_retry > 0

\* the exceptions cur.execute can raise on connection c: None has no
\* cursor(), a connection without socket raises InterfaceError, a live one
\* fails when the environment makes it fail
ExecFailures(c) ==
    IF c = 0 THEN {"AttributeError"}
    ELSE IF sessions[c].st # "open" THEN {"InterfaceError"}
    ELSE IF faults < MaxFaults
         THEN {"OperationalError", "InternalError", "ProgrammingError"}
         ELSE {}

Injected(c) == c # 0 /\ sessions[c].st = "open"

\* a connection that raised OperationalError has lost its socket
AfterFailure(ss, c, cls) ==
    IF c # 0 /\ cls = "OperationalError" THEN [ss EXCEPT ![c].st = "lost"]
    ELSE ss

IsConnectivityClass_or_internal(cls) ==
    cls \in {"InterfaceError", "OperationalError", "InternalError"}

\* except (InterfaceError, OperationalError)
IsConnectivityClass(cls) == cls \in {"InterfaceError", "OperationalError"}

\* cur.execute succeeds: return cur.fetchall() or []
QueryReturn ==
    /\ Running("query", "exec")
    /\ Top.conn # 0
    /\ sessions[Top.conn].st = "open"
    /\ \E rows \in Answers(Top.sql, sessions[Top.conn].params) :
          /\ ret' = Val(rows)
          /\ obs' = ObsOk(obs, Top.sql, Top.conn, rows)
    /\ stack' = Pop
    /\ UNCHANGED <<self_vars, sessions, faults, calls, arg, export>>

\* cur.execute raises and the exception leaves query(): it is not of the
\* connectivity class, or no retry is left ("raise exc")
QueryRaise ==
    /\ Running("query", "exec")
    /\ \E cls \in ExecFailures(Top.conn) :
          /\ ~(IsConnectivityClass(cls) /\ should_retry(Top.n_retry))
          /\ ret' = Raise(cls, "")
          /\ obs' = ObsFail(obs, Top.sql, Top.conn, cls)
          /\ sessions' = AfterFailure(sessions, Top.conn, cls)
    /\ faults' = IF Injected(Top.conn) THEN faults + 1 ELSE faults
    /\ stack' = Pop
    /\ UNCHANGED <<self_vars, calls, arg, export>>

\* cur.execute raises InterfaceError/OperationalError with n_retry > 0:
\* close_connections(silent=True), then open_connections() is called
QueryReconnect ==
    /\ Running("query", "exec")
    /\ \E cls \in ExecFailures(Top.conn) :
          /\ IsConnectivityClass(cls) /\ should_retry(Top.n_retry)
          /\ LET r == close_connections(
                           AfterFailure(sessions, Top.conn, cls),
                           conn, conn_unbuffered)
             IN  /\ obs' = ObsOpen(ObsClose(ObsFail(obs, Top.sql, Top.conn,
                                                     cls),
                                             conn, conn_unbuffered, r, TRUE))
                 /\ sessions' = r.ss
    /\ faults' = IF Injected(Top.conn) THEN faults + 1 ELSE faults
    /\ stack' = Append([stack EXCEPT ![Len(stack)].pc = "wait_open"],
                       Frame("open_connections", "connect"))
    /\ ret' = NoRet
    /\ UNCHANGED <<self_vars, calls, arg, export>>

\* open_connections() came back inside the except branch: its exception
\* propagates, else "return self.query(query, params=..., n_retry=n_retry-1)"
\* (conn is not passed on: the retry runs on self.conn)
QueryAfterReopen ==
    /\ Running("query", "wait_open")
    /\ IF ret.kind = "exc"
       THEN /\ stack' = Pop
            /\ ret' = ret
       ELSE /\ stack' = [stack EXCEPT ![Len(stack)] =
                            query_frame(Top.sql, 0, Top.n_retry - 1, conn)]
            /\ ret' = NoRet
    /\ UNCHANGED <<self_vars, sessions, faults, calls, obs, arg, export>>

-----------------------------------------------------------------------------
(* open_connections and run_session_sqls *)

session_sqls_of(cfg) ==
    LET l == Get(cfg, "session_sqls", DEFAULT_SESSION_SQLS)
    IN  IF Len(l) > 0 THEN l ELSE <<>>

\* run_session_sqls from statement i on, with the open_connections frame on
\* top of the stack: query(sql) is called, or the loop and with it
\* open_connections ends
SessionLoop(i, self_conn) ==
    IF i <= Len(session_sqls_of(connection_config))
    THEN [stack |-> Append(
              [stack EXCEPT ![Len(stack)].pc = "wait_buffered",
                            ![Len(stack)].i = i],
              query_frame(session_sqls_of(connection_config)[i], 0,
                          DEFAULT_N_RETRY, self_conn)),
          ret |-> NoRet]
    ELSE [stack |-> Pop, ret |-> Val("None")]

\* both pymysql.connect calls succeed; run_session_sqls starts
OpenConnect ==
    /\ Running("open_connections", "connect")
    /\ LET p == get_connection_parameters(connection_config, FALSE)
       IN  /\ is_replica' = p[2]
           /\ sessions' = sessions \o
                  <<NewSession(p[1], FALSE), NewSession(p[1], FALSE)>>
    /\ conn' = Len(sessions) + 1
    /\ conn_unbuffered' = Len(sessions) + 2
    /\ stack' = SessionLoop(1, conn').stack
    /\ ret' = SessionLoop(1, conn').ret
    /\ UNCHANGED <<connection_config, faults, calls, obs, arg, export>>

\* the first (k = 1) or the second (k = 2) pymysql.connect raises
OpenConnectFails ==
    /\ Running("open_connections", "connect")
    /\ faults < MaxFaults
    /\ LET p == get_connection_parameters(connection_config, FALSE)
       IN  /\ is_replica' = p[2]
           /\ \E k \in {1, 2} :
                 IF k = 1
                 THEN UNCHANGED <<sessions, conn>>
                 ELSE /\ sessions' = Append(sessions, NewSession(p[1], FALSE))
                      /\ conn' = Len(sessions) + 1
    /\ faults' = faults + 1
    /\ obs' = [obs EXCEPT !.nFail = @ + 1]
    /\ stack' = Pop
    /\ ret' = Raise("OperationalError", "")
    /\ UNCHANGED <<connection_config, conn_unbuffered, calls, arg, export>>

\* self.query(sql) came back: InternalError is caught (a warning), any other
\* exception leaves run_session_sqls, else
\* self.query(sql, self.conn_unbuffered) is called
RunSessionSqlsBuffered ==
    /\ Running("open_connections", "wait_buffered")
    /\ IF ret.kind = "val"
       THEN /\ stack' = Append(
                   [stack EXCEPT ![Len(stack)].pc = "wait_unbuffered"],
                   query_frame(session_sqls_of(connection_config)[Top.i],
                               conn_unbuffered, DEFAULT_N_RETRY, conn))
            /\ ret' = NoRet
       ELSE IF ret.v.cls = "InternalError"
       THEN /\ stack' = SessionLoop(Top.i + 1, conn).stack
            /\ ret' = SessionLoop(Top.i + 1, conn).ret
       ELSE /\ stack' = Pop
            /\ ret' = ret
    /\ UNCHANGED <<self_vars, sessions, faults, calls, obs, arg, export>>

\* self.query(sql, self.conn_unbuffered) came back
RunSessionSqlsUnbuffered ==
    /\ Running("open_connections", "wait_unbuffered")
    /\ IF ret.kind = "val" \/ ret.v.cls = "InternalError"
       THEN /\ stack' = SessionLoop(Top.i + 1, conn).stack
            /\ ret' = SessionLoop(Top.i + 1, conn).ret
       ELSE /\ stack' = Pop
            /\ ret' = ret
    /\ UNCHANGED <<self_vars, sessions, faults, calls, obs, arg, export>>

-----------------------------------------------------------------------------
(* Replication position resolver *)

\* __get_primary_server_id / __get_primary_server_uuid: the statement and
\* the column each reads
PrimaryServerOps == {"get_primary_server_id", "get_primary_server_uuid"}
PrimaryServerSql(op) ==
    IF op = "get_primary_server_id" THEN SqlServerId ELSE SqlServerUuid
PrimaryServerColumn(op) ==
    IF op = "get_primary_server_id" THEN "server_id" ELSE "server_uuid"

needs_auxiliary_always(replica) == TRUE

\* "pymysql.connect(...) if self.is_replica else None"
needs_auxiliary(replica) == replica

\* the instance when __get_primary_server_id / _uuid starts
ObsPrimaryServer(o) ==
    [o EXCEPT !.idPre = [conn |-> conn, conn_unbuffered |-> conn_unbuffered,
                         is_replica |-> is_replica, sessions |-> sessions,
                         nOpen |-> o.nOpen, nClose |-> o.nClose,
                         nFail |-> o.nFail]]

\* conn = pymysql.connect(primary parameters) if self.is_replica else None;
\* self.query(sql, conn) is called
PrimaryServerStart ==
    /\ Len(stack) > 0
    /\ Top.op \in PrimaryServerOps
    /\ Top.pc = "start"
    /\ LET aux == IF needs_auxiliary(is_replica) THEN Len(sessions) + 1 ELSE 0
       IN  /\ sessions' =
                 IF needs_auxiliary(is_replica)
                 THEN Append(sessions, NewSession(
                          get_connection_parameters(connection_config, TRUE)[1],
                          TRUE))
                 ELSE sessions
           /\ stack' = Append(
                  [stack EXCEPT ![Len(stack)].pc = "wait",
                                ![Len(stack)].aux = aux],
                  query_frame(PrimaryServerSql(Top.op), aux, DEFAULT_N_RETRY,
                              conn))
    /\ obs' = ObsPrimaryServer(obs)
    /\ ret' = NoRet
    /\ UNCHANGED <<self_vars, faults, calls, arg, export>>

\* the connect to the primary raises
PrimaryServerConnectFails ==
    /\ Len(stack) > 0
    /\ Top.op \in PrimaryServerOps
    /\ Top.pc = "start"
    /\ is_replica
    /\ faults < MaxFaults
    /\ faults' = faults + 1
    /\ obs' = [ObsPrimaryServer(obs) EXCEPT !.nFail = @ + 1]
    /\ stack' = Pop
    /\ ret' = Raise("OperationalError", "")
    /\ UNCHANGED <<self_vars, sessions, calls, arg, export>>

\* what follows self.query(...): "if conn: conn.close()" and
\* "return result[0][column]"
primary_server_result(rows, column) ==
    IF Len(rows) = 0 THEN Raise("IndexError", "list index out of range")
    ELSE Val(rows[1][column])

\* self.query(sql, conn) came back: an exception leaves the method at once
PrimaryServerReturn ==
    /\ Len(stack) > 0
    /\ Top.op \in PrimaryServerOps
    /\ Top.pc = "wait"
    /\ IF ret.kind = "exc"
       THEN /\ ret' = ret
            /\ UNCHANGED sessions
       ELSE IF Top.aux # 0 /\ CloseRaises(sessions, Top.aux)
       THEN /\ ret' = Raise("Error", "Already closed")
            /\ UNCHANGED sessions
       ELSE /\ ret' = primary_server_result(ret.v, PrimaryServerColumn(Top.op))
            /\ sessions' = IF Top.aux # 0 THEN CloseOne(sessions, Top.aux)
                           ELSE sessions
    /\ stack' = Pop
    /\ UNCHANGED <<self_vars, faults, calls, obs, arg, export>>

binlog_coordinates_swapped(result, sql) ==
    IF Len(result) = 0 THEN Raise("Exception", MsgBinlogNotEnabled)
    ELSE IF sql = SqlMasterStatus
    THEN Val([log_file |-> GetOrNone(result[1], "Master_Log_File"),
              log_pos |-> GetOrNone(result[1], "Read_Master_Log_Pos"),
              version |-> Get(result[1], "version", 1)])
    ELSE Val([log_file |-> GetOrNone(result[1], "File"),
              log_pos |-> GetOrNone(result[1], "Position"),
              version |-> Get(result[1], "version", 1)])

\* _get_binlog_coordinates after self.query(sql) returned result
binlog_coordinates(result, sql) ==
    IF Len(result) = 0 THEN Raise("Exception", MsgBinlogNotEnabled)
    ELSE IF sql = SqlSlaveStatus
    THEN Val([log_file |-> GetOrNone(result[1], "Master_Log_File"),
              log_pos |-> GetOrNone(result[1], "Read_Master_Log_Pos"),
              version |-> Get(result[1], "version", 1)])
    ELSE Val([log_file |-> GetOrNone(result[1], "File"),
              log_pos |-> GetOrNone(result[1], "Position"),
              version |-> Get(result[1], "version", 1)])

\* if self.is_replica: 'SHOW SLAVE STATUS' else 'SHOW MASTER STATUS'
binlog_status_sql(replica) ==
    IF replica THEN SqlSlaveStatus ELSE SqlMasterStatus

\* _get_binlog_coordinates: the branch on self.is_replica and its query
BinlogStart ==
    /\ Running("get_binlog_coordinates", "start")
    /\ stack' = Append(
           [stack EXCEPT ![Len(stack)].pc = "wait",
                         ![Len(stack)].sql = binlog_status_sql(is_replica)],
           query_frame(binlog_status_sql(is_replica), 0, DEFAULT_N_RETRY, conn))
    /\ ret' = NoRet
    /\ UNCHANGED <<self_vars, sessions, faults, calls, obs, arg, export>>

BinlogReturn ==
    /\ Running("get_binlog_coordinates", "wait")
    /\ ret' = IF ret.kind = "exc" THEN ret
              ELSE binlog_coordinates(ret.v, Top.sql)
    /\ stack' = Pop
    /\ UNCHANGED <<self_vars, sessions, faults, calls, obs, arg, export>>

\* __find_mariadb_gtid_pos: the query of the position variable
MariadbStart ==
    /\ Running("find_mariadb_gtid_pos", "start")
    /\ stack' = Append(
           [stack EXCEPT ![Len(stack)].pc = "wait_pos"],
           query_frame(IF is_replica THEN SqlGtidSlavePos
                       ELSE SqlGtidCurrentPos, 0, DEFAULT_N_RETRY, conn))
    /\ ret' = NoRet
    /\ UNCHANGED <<self_vars, sessions, faults, calls, obs, arg, export>>

\* "if not result: raise", else gtids = result[0]['current_gtids'] and
\* __get_primary_server_id() is called
MariadbAfterPos ==
    /\ Running("find_mariadb_gtid_pos", "wait_pos")
    /\ IF ret.kind = "exc"
       THEN /\ stack' = Pop
            /\ ret' = ret
       ELSE IF Len(ret.v) = 0
       THEN /\ stack' = Pop
            /\ ret' = Raise("Exception", MsgGtidNotEnabled)
       ELSE /\ stack' = Append(
                   [stack EXCEPT ![Len(stack)].pc = "wait_id",
                                 ![Len(stack)].val = ret.v[1]["current_gtids"]],
                   Frame("get_primary_server_id", "start"))
            /\ ret' = NoRet
    /\ UNCHANGED <<self_vars, sessions, faults, calls, obs, arg, export>>

\* server_id = str(...), then the loop over gtids.split(',')
MariadbAfterId ==
    /\ Running("find_mariadb_gtid_pos", "wait_id")
    /\ ret' = IF ret.kind = "exc" THEN ret
              ELSE find_mariadb_gtid(Top.val, IntToStr(ret.v))
    /\ stack' = Pop
    /\ UNCHANGED <<self_vars, sessions, faults, calls, obs, arg, export>>

\* __find_mysql_gtid_pos: the query of @@gtid_mode
MysqlStart ==
    /\ Running("find_mysql_gtid_pos", "start")
    /\ stack' = Append(
           [stack EXCEPT ![Len(stack)].pc = "wait_mode"],
           query_frame(SqlGtidMode, 0, DEFAULT_N_RETRY, conn))
    /\ ret' = NoRet
    /\ UNCHANGED <<self_vars, sessions, faults, calls, obs, arg, export>>

gtid_mode_is_off_without_row(result) == Len(result) = 0

\* if not result or result[0].get('gtid_mode') != 'ON'
gtid_mode_is_off(result) ==
    Len(result) = 0 \/ GetOrNone(result[1], "gtid_mode") # "ON"

MysqlAfterMode ==
    /\ Running("find_mysql_gtid_pos", "wait_mode")
    /\ IF ret.kind = "exc"
       THEN /\ stack' = Pop
            /\ ret' = ret
       ELSE IF gtid_mode_is_off(ret.v)
       THEN /\ stack' = Pop
            /\ ret' = Raise("Exception", MsgGtidModeNotEnabled)
       ELSE /\ stack' = Append(
                   [stack EXCEPT ![Len(stack)].pc = "wait_executed"],
                   query_frame(SqlGtidExecuted, 0, DEFAULT_N_RETRY, conn))
            /\ ret' = NoRet
    /\ UNCHANGED <<self_vars, sessions, faults, calls, obs, arg, export>>

MysqlAfterExecuted ==
    /\ Running("find_mysql_gtid_pos", "wait_executed")
    /\ IF ret.kind = "exc"
       THEN /\ stack' = Pop
            /\ ret' = ret
       ELSE IF Len(ret.v) = 0
       THEN /\ stack' = Pop
            /\ ret' = Raise("Exception", MsgNoGtidExecuted)
       ELSE /\ stack' = Append(
                   [stack EXCEPT ![Len(stack)].pc = "wait_uuid",
                                 ![Len(stack)].val = ret.v[1]["current_gtids"]],
                   Frame("get_primary_server_uuid", "start"))
            /\ ret' = NoRet
    /\ UNCHANGED <<self_vars, sessions, faults, calls, obs, arg, export>>

MysqlAfterUuid ==
    /\ Running("find_mysql_gtid_pos", "wait_uuid")
    /\ ret' = IF ret.kind = "exc" THEN ret
              ELSE find_mysql_gtid(Top.val, ret.v)
    /\ stack' = Pop
    /\ UNCHANGED <<self_vars, sessions, faults, calls, obs, arg, export>>

fetch_current_log_pos_binlog_only(cfg) == "get_binlog_coordinates"

\* fetch_current_log_pos and _get_current_gtid_pos: the method that runs
fetch_current_log_pos(cfg) ==
    IF cfg["use_gtid"]
    THEN IF is_mariadb(cfg) THEN "find_mariadb_gtid_pos"
         ELSE "find_mysql_gtid_pos"
    ELSE "get_binlog_coordinates"

-----------------------------------------------------------------------------
(* get_table_columns: the safe_sql_value of one column.  SQL text is a       *)
(* sequence of pieces (strings); BackQuote stands for the back-quote.        *)

BackQuote == "[backquote]"

\* if max_num: a str that is not None and not ''
max_num_given(max_num) == ~max_num.none /\ Len(max_num.s) > 0

\* len(max_num.split('.')[1]) if '.' in max_num else 0
decimals_of(max_num) ==
    IF \E k \in 1..Len(max_num) : max_num[k] = "."
    THEN Len(PySplit(max_num, ".")[2]) ELSE 0

\* CONCAT('`', column_name, '`')
column_reference(column_name) == <<BackQuote, column_name, BackQuote>>

\* decimal_format, evaluated for a column
decimal_format(column_name, max_num) ==
    IF max_num_given(max_num)
    THEN <<"GREATEST(LEAST(">> \o max_num.s \o <<", ROUND(">>
            \o column_reference(column_name) \o <<", ">>
            \o IntToStr(decimals_of(max_num.s)) \o <<")), -">>
            \o max_num.s \o <<")">>
    ELSE column_reference(column_name)

integer_format_as_decimal(column_name, max_num) ==
    decimal_format(column_name, max_num)

\* integer_format, evaluated for a column
integer_format(column_name, max_num) == column_reference(column_name)

\* the CASE expression of the statement, as the server evaluates it for
\* the column c of information_schema.columns
safe_sql_value(c, max_num, date_type) ==
    IF c.data_type \in {"blob", "tinyblob", "mediumblob", "longblob"}
    THEN <<"REPLACE(hex(">> \o column_reference(c.column_name)
            \o <<")", ", '\n', ' ')">>
    ELSE IF c.data_type \in {"binary", "varbinary"}
    THEN <<"REPLACE(REPLACE(hex(trim(trailing CHAR(0x00) from ">>
            \o column_reference(c.column_name)
            \o <<"))", ", '\n', ' '), '\r', '')">>
    ELSE IF c.data_type \in {"bit"}
    THEN <<"cast(">> \o column_reference(c.column_name) \o <<" AS unsigned)">>
    ELSE IF c.data_type \in {"date"}
    THEN <<"nullif(CAST(">> \o column_reference(c.column_name)
            \o <<" AS ", date_type,
                 "),STR_TO_DATE('0000-00-00 00:00:00', '%Y-%m-%d %T'))">>
    ELSE IF c.data_type \in {"datetime", "timestamp"}
    THEN <<"nullif(">> \o column_reference(c.column_name)
            \o <<",STR_TO_DATE('0000-00-00 00:00:00', '%Y-%m-%d %T'))">>
    ELSE IF c.column_type \in {"tinyint(1)"}
    THEN <<"CASE WHEN ">> \o column_reference(c.column_name)
            \o <<" is null THEN null WHEN ">>
            \o column_reference(c.column_name)
            \o <<" = 0 THEN 0 ELSE 1 END">>
    ELSE IF c.column_type \in {"geometry", "point", "linestring", "polygon",
                               "multipoint", "multilinestring",
                               "multipolygon", "geometrycollection"}
    THEN <<"ST_AsGeoJSON(", c.column_name, ")">>
    ELSE IF c.column_name = "raw_data_hash"
    THEN <<"REPLACE(REPLACE(hex(">> \o column_reference(c.column_name)
            \o <<")", ", '\n', ' '), '\r', '')">>
    ELSE IF c.data_type \in {"double", "numeric", "float", "decimal", "real"}
    THEN decimal_format(c.column_name, max_num)
    ELSE IF c.data_type \in {"smallint", "integer", "bigint", "mediumint",
                             "int"}
    THEN integer_format(c.column_name, max_num)
    ELSE <<"REPLACE(REPLACE(REPLACE(cast(">>
            \o column_reference(c.column_name)
            \o <<" AS char CHARACTER SET utf8)",
                 ", '\n', ' '), '\r', ''), '[NUL]', '')">>

-----------------------------------------------------------------------------
(* copy_table *)

\* the chunked output sink (split_gzip): not opened yet, open after
\* split_gzip.open(...), closed when its context manager exits
split_gzip_open == "open"
split_gzip_exit(sink) == IF sink = "open" THEN "closed" ELSE sink

\* before a copy_table call: no result set, no sink, nothing written or logged
ExportInit ==
    [sink |-> "none", cursor |-> <<>>, exported_rows |-> 0,
     written |-> <<>>, log |-> <<>>, result_rows |-> 0, fetched |-> <<>>]

\* the rows 1..n of a result set, in the order the server sends them
ResultSet(n) == [k \in 1..n |-> k]

table_not_found_never(column_safe_sql_values) == FALSE

\* if len(column_safe_sql_values) == 0
table_not_found(column_safe_sql_values) == Len(column_safe_sql_values) = 0

\* [c.get('safe_sql_value') for c in table_columns]
column_safe_sql_values_of(table_columns) ==
    [k \in 1..Len(table_columns) |->
        GetOrNone(table_columns[k], "safe_sql_value")]

leave_sink_block_on_success_only(sink, raised) ==
    IF raised THEN sink ELSE split_gzip_exit(sink)

\* "with gzip_splitter as split_gzip_files": the block is left, by its end
\* or by an exception, through the context manager's exit
leave_sink_block(sink, raised) == split_gzip_exit(sink)

\* cur.fetchmany(export_batch_rows)
fetchmany(cursor, size) ==
    SubSeq(cursor, 1, IF Len(cursor) < size THEN Len(cursor) ELSE size)

count_rows_by_batch(exported_rows, rows) == exported_rows + 1

\* exported_rows += len(rows)
count_rows(exported_rows, rows) == exported_rows + Len(rows)

is_full_batch_or_partial(rows, size) == Len(rows) <= size

\* if len(rows) == export_batch_rows
is_full_batch(rows, size) == Len(rows) = size

\* LOGGER.info('Exporting batch from %s to %s rows from %s...')
LogProgress(from, to) == [kind |-> "progress", from |-> from, to |-> to]
\* LOGGER.info('Exported total of %s rows from %s...')
LogTotal(n) == [kind |-> "total", from |-> 0, to |-> n]

\* table_columns = self.get_table_columns(...): its self.query(sql)
CopyStart ==
    /\ Running("copy_table", "start")
    /\ stack' = Append([stack EXCEPT ![Len(stack)].pc = "wait_columns"],
                       query_frame(SqlColumns, 0, DEFAULT_N_RETRY, conn))
    /\ ret' = NoRet
    /\ UNCHANGED <<self_vars, sessions, faults, calls, obs, arg, export>>

\* get_table_columns came back: its exception propagates; zero rows raise
\* 'table not found.'; else the SELECT is composed
CopyAfterColumns ==
    /\ Running("copy_table", "wait_columns")
    /\ IF ret.kind = "exc"
       THEN /\ stack' = Pop
            /\ ret' = ret
       ELSE IF table_not_found(column_safe_sql_values_of(ret.v))
       THEN /\ stack' = Pop
            /\ ret' = Raise("Exception", MsgTableNotFound)
       ELSE /\ stack' = [stack EXCEPT ![Len(stack)].pc = "execute",
                                      ![Len(stack)].sql = SqlSelect]
            /\ ret' = NoRet
    /\ UNCHANGED <<self_vars, sessions, faults, calls, obs, arg, export>>

\* "with self.conn_unbuffered.cursor() as cur: cur.execute(sql)" succeeds
\* with a result set of n rows, then split_gzip.open(...) opens the sink
CopyExecute ==
    /\ Running("copy_table", "execute")
    /\ conn_unbuffered # 0
    /\ sessions[conn_unbuffered].st = "open"
    /\ \E n \in 0..MaxRows :
          export' = [export EXCEPT !.cursor = ResultSet(n),
                                   !.result_rows = n,
                                   !.sink = split_gzip_open]
    /\ obs' = ObsOk(obs, Top.sql, conn_unbuffered, <<>>)
    /\ stack' = [stack EXCEPT ![Len(stack)].pc = "fetch"]
    /\ ret' = NoRet
    /\ UNCHANGED <<self_vars, sessions, faults, calls, arg>>

\* cur.execute(sql) raises: nothing catches it in copy_table
CopyExecuteRaises ==
    /\ Running("copy_table", "execute")
    /\ \E cls \in ExecFailures(conn_unbuffered) :
          /\ ret' = Raise(cls, "")
          /\ obs' = ObsFail(obs, Top.sql, conn_unbuffered, cls)
          /\ sessions' = AfterFailure(sessions, conn_unbuffered, cls)
    /\ faults' = IF Injected(conn_unbuffered) THEN faults + 1 ELSE faults
    /\ stack' = Pop
    /\ UNCHANGED <<self_vars, calls, arg, export>>

\* one round of "while True": a batch is fetched, counted, reported when it
\* is full, and written; or the fetch returns no rows and the loop ends
CopyBatch ==
    /\ Running("copy_table", "fetch")
    /\ LET size == connection_config["export_batch_rows"]
           rows == fetchmany(export.cursor, size)
           count == count_rows(export.exported_rows, rows)
       IN  IF Len(rows) = 0
           THEN /\ export' = [export EXCEPT
                      !.fetched = Append(@, rows),
                      !.log = Append(@, LogTotal(export.exported_rows)),
                      !.sink = leave_sink_block(export.sink, FALSE)]
                /\ stack' = Pop
                /\ ret' = Val("None")
           ELSE /\ export' = [export EXCEPT
                      !.cursor = SubSeq(@, Len(rows) + 1, Len(@)),
                      !.exported_rows = count,
                      !.log = IF is_full_batch(rows, size)
                              THEN Append(@, LogProgress(count - size, count))
                              ELSE @,
                      !.fetched = Append(@, rows),
                      !.written = @ \o rows]
                /\ stack' = stack
                /\ ret' = NoRet
    /\ UNCHANGED <<self_vars, sessions, faults, calls, obs, arg>>

\* cur.fetchmany raises (the connection is lost), or a batch is fetched and
\* writer.writerows raises (the disk is full): the sink block is left by
\* the exception
CopyBatchRaises ==
    /\ Running("copy_table", "fetch")
    /\ faults < MaxFaults
    /\ LET size == connection_config["export_batch_rows"]
           rows == fetchmany(export.cursor, size)
           count == count_rows(export.exported_rows, rows)
       IN  \/ /\ export' = [export EXCEPT
                      !.sink = leave_sink_block(export.sink, TRUE)]
              /\ sessions' = AfterFailure(sessions, conn_unbuffered,
                                          "OperationalError")
              /\ ret' = Raise("OperationalError", "")
           \/ /\ Len(rows) > 0
              /\ export' = [export EXCEPT
                      !.cursor = SubSeq(@, Len(rows) + 1, Len(@)),
                      !.exported_rows = count,
                      !.log = IF is_full_batch(rows, size)
                              THEN Append(@, LogProgress(count - size, count))
                              ELSE @,
                      !.fetched = Append(@, rows),
                      !.sink = leave_sink_block(export.sink, TRUE)]
              /\ UNCHANGED sessions
              /\ ret' = Raise("OSError", "")
    /\ faults' = faults + 1
    /\ obs' = [obs EXCEPT !.nFail = @ + 1]
    /\ stack' = Pop
    /\ UNCHANGED <<self_vars, calls, arg>>

-----------------------------------------------------------------------------
(* Top-level calls made by the user of the class *)

\* a call starts with a fresh history; the locals of an earlier copy_table
\* (its cursor, its sink, its counters) ended with that call
CanCall == Idle /\ calls < MaxCalls

CallOpenConnections ==
    /\ CanCall
    /\ stack' = <<Frame("open_connections", "connect")>>
    /\ obs' = ObsOpen(ObsStart)
    /\ arg' = ArgOf("open_connections")
    /\ ret' = NoRet
    /\ calls' = calls + 1
    /\ export' = ExportInit
    /\ UNCHANGED <<self_vars, sessions, faults>>

\* close_connections(silent): the whole method, it calls nothing that can
\* call back; "except Exception" catches the AttributeError of None.close()
\* and pymysql's Error('Already closed'), so the method returns None
CallCloseConnections ==
    /\ CanCall
    /\ LET r == close_connections(sessions, conn, conn_unbuffered)
       IN  /\ sessions' = r.ss
           /\ \E silent \in BOOLEAN :
                 /\ arg' = [ArgOf("close_connections") EXCEPT
                               !.silent = silent]
                 /\ obs' = ObsClose(ObsStart, conn, conn_unbuffered, r, silent)
    /\ ret' = Val("None")
    /\ calls' = calls + 1
    /\ export' = ExportInit
    /\ UNCHANGED <<self_vars, stack, faults>>

\* query(sql, conn, n_retry=n) with conn left out or self.conn_unbuffered
CallQuery ==
    /\ CanCall
    /\ \E n \in 0..MaxRetry, c \in {0, conn_unbuffered} :
          /\ stack' = <<query_frame(SqlUser, c, n, conn)>>
          /\ arg' = [ArgOf("query") EXCEPT !.n_retry = n, !.conn = c]
    /\ obs' = ObsStart
    /\ ret' = NoRet
    /\ calls' = calls + 1
    /\ export' = ExportInit
    /\ UNCHANGED <<self_vars, sessions, faults>>

CallFetchCurrentLogPos ==
    /\ CanCall
    /\ stack' = <<Frame(fetch_current_log_pos(connection_config), "start")>>
    /\ arg' = ArgOf("fetch_current_log_pos")
    /\ obs' = ObsStart
    /\ ret' = NoRet
    /\ calls' = calls + 1
    /\ export' = ExportInit
    /\ UNCHANGED <<self_vars, sessions, faults>>

\* copy_table('db.t', path) with the defaults of its other parameters
CallCopyTable ==
    /\ CanCall
    /\ stack' = <<Frame("copy_table", "start")>>
    /\ arg' = ArgOf("copy_table")
    /\ obs' = ObsStart
    /\ export' = ExportInit
    /\ ret' = NoRet
    /\ calls' = calls + 1
    /\ UNCHANGED <<self_vars, sessions, faults>>

-----------------------------------------------------------------------------
(* The class in use: Spec *)

\* configurations without replica and with a full set of replica fields
MainConfigs ==
    {BaseConfig([t |-> "int", v |-> 33], g, e, <<"SET time_zone">>)
        @@ ReplicaPart(keys, [t |-> "int", v |-> 34]) :
        g \in BOOLEAN, e \in {MYSQL_ENGINE, MARIADB_ENGINE},
        keys \in {{}, ReplicaKeys}}

\* __init__: no connection yet
InitSelf(cfg) ==
    /\ connection_config = cfg
    /\ conn = 0
    /\ conn_unbuffered = 0
    /\ is_replica = FALSE
    /\ sessions = <<>>

InitRest ==
    /\ stack = <<>>
    /\ ret = NoRet
    /\ faults = 0
    /\ calls = 0
    /\ obs = ObsInit
    /\ arg = ArgOf("none")
    /\ export = ExportInit

Init ==
    /\ \E cfg \in MainConfigs : InitSelf(cfg)
    /\ InitRest

Next ==
    \/ CallOpenConnections
    \/ CallCloseConnections
    \/ CallQuery
    \/ CallFetchCurrentLogPos
    \/ CallCopyTable
    \/ CopyStart
    \/ CopyAfterColumns
    \/ CopyExecute
    \/ CopyExecuteRaises
    \/ CopyBatch
    \/ CopyBatchRaises
    \/ QueryReturn
    \/ QueryRaise
    \/ QueryReconnect
    \/ QueryAfterReopen
    \/ OpenConnect
    \/ OpenConnectFails
    \/ RunSessionSqlsBuffered
    \/ RunSessionSqlsUnbuffered
    \/ PrimaryServerStart
    \/ PrimaryServerConnectFails
    \/ PrimaryServerReturn
    \/ BinlogStart
    \/ BinlogReturn
    \/ MariadbStart
    \/ MariadbAfterPos
    \/ MariadbAfterId
    \/ MysqlStart
    \/ MysqlAfterMode
    \/ MysqlAfterExecuted
    \/ MysqlAfterUuid

Spec == Init /\ [][Next]_vars

-----------------------------------------------------------------------------
(* get_connection_parameters on every configuration: SpecParams *)

\* the instance after __init__, or after an open_connections that succeeded
InitParams ==
    /\ \E cfg \in AllConfigs :
          \/ InitSelf(cfg)
          \/ /\ connection_config = cfg
             /\ conn = 1
             /\ conn_unbuffered = 2
             /\ is_replica = get_connection_parameters(cfg, FALSE)[2]
             /\ sessions =
                  <<NewSession(get_connection_parameters(cfg, FALSE)[1], FALSE),
                    NewSession(get_connection_parameters(cfg, FALSE)[1], FALSE)>>
    /\ InitRest

\* the method assigns to no attribute of self
GetConnectionParameters ==
    /\ Idle
    /\ \E pp \in BOOLEAN :
          /\ arg' = [ArgOf("get_connection_parameters") EXCEPT
                        !.prioritize_primary = pp]
          /\ ret' = Val(get_connection_parameters(connection_config, pp))
    /\ UNCHANGED <<self_vars, sessions, stack, faults, calls, obs, export>>

NextParams == GetConnectionParameters

SpecParams == InitParams /\ [][NextParams]_vars

-----------------------------------------------------------------------------
(* The GTID selection loops on GTID sets built from entries: SpecGtid *)

\* entries of a MariaDB GTID set: '0-1-5', '0-1-9', '0-12-7', '1-5',
\* '0-1-5-2', '', ' 0-1-6'
MariadbEntries ==
    {<<"0", "-", "1", "-", "5">>, <<"0", "-", "1", "-", "9">>,
     <<"0", "-", "1", "2", "-", "7">>, <<"1", "-", "5">>,
     <<"0", "-", "1", "-", "5", "-", "2">>, <<>>,
     <<" ", "0", "-", "1", "-", "6">>}

\* entries of a MySQL GTID set: 'a:1', 'a:2', 'b:3', 'a:1:5', 'a', '',
\* newline + 'a:4'
MysqlEntries ==
    {<<"a", ":", "1">>, <<"a", ":", "2">>, <<"b", ":", "3">>,
     <<"a", ":", "1", ":", "5">>, <<"a">>, <<>>, <<"\n", "a", ":", "4">>}

RECURSIVE Join(_)
\* ','.join(entries)
Join(entries) ==
    IF Len(entries) = 0 THEN <<>>
    ELSE IF Len(entries) = 1 THEN entries[1]
    ELSE entries[1] \o <<",">> \o Join(Tail(entries))

GtidSets(tokens) ==
    {Join(e) : e \in UNION {[1..n -> tokens] : n \in 1..MaxEntries}}

InitGtid ==
    /\ InitSelf(BaseConfig([t |-> "int", v |-> 33], TRUE, MYSQL_ENGINE,
                           DEFAULT_SESSION_SQLS))
    /\ stack = <<>>
    /\ ret = NoRet
    /\ faults = 0
    /\ calls = 0
    /\ obs = ObsInit
    /\ export = ExportInit
    /\ \/ \E g \in GtidSets(MariadbEntries), id \in {1, 12} :
             arg = [ArgOf("find_mariadb_gtid_pos") EXCEPT
                       !.gtids = PyStr(g), !.id = IntToStr(id)]
       \/ \E g \in GtidSets(MysqlEntries), id \in {<<"a">>, <<"b">>} :
             arg = [ArgOf("find_mysql_gtid_pos") EXCEPT
                       !.gtids = PyStr(g), !.id = id]

\* the loop of __find_mariadb_gtid_pos on gtids and str(server_id)
FindMariadbGtid ==
    /\ arg.op = "find_mariadb_gtid_pos"
    /\ ret.kind = "none"
    /\ ret' = find_mariadb_gtid(arg.gtids, arg.id)
    /\ UNCHANGED <<self_vars, sessions, stack, faults, calls, obs, arg, export>>

\* the loop of __find_mysql_gtid_pos on gtids and server_uuid
FindMysqlGtid ==
    /\ arg.op = "find_mysql_gtid_pos"
    /\ ret.kind = "none"
    /\ ret' = find_mysql_gtid(arg.gtids, arg.id)
    /\ UNCHANGED <<self_vars, sessions, stack, faults, calls, obs, arg, export>>

NextGtid == FindMariadbGtid \/ FindMysqlGtid

SpecGtid == InitGtid /\ [][NextGtid]_vars

-----------------------------------------------------------------------------
(* get_table_columns on one column of every type: SpecColumns *)

\* data_type and column_type as information_schema.columns reports them
ColumnTypes ==
    {<<t, t>> : t \in {"blob", "tinyblob", "mediumblob", "longblob", "bit",
                       "date", "datetime", "timestamp", "geometry", "point",
                       "linestring", "polygon", "multipoint",
                       "multilinestring", "multipolygon",
                       "geometrycollection", "double", "float", "real",
                       "numeric", "integer", "text", "json"}}
    \cup {<<"binary", "binary(16)">>, <<"varbinary", "varbinary(8)">>,
          <<"tinyint", "tinyint(1)">>, <<"tinyint", "tinyint(4)">>,
          <<"decimal", "decimal(10,2)">>, <<"smallint", "smallint(6)">>,
          <<"bigint", "bigint(20)">>, <<"mediumint", "mediumint(9)">>,
          <<"int", "int(11)">>, <<"varchar", "varchar(255)">>}

ColumnNames == {"id", "raw_data_hash"}

\* max_num: None, '', '100', '9.99', '0.5'
MaxNums ==
    {PyNone, PyStr(<<>>), PyStr(<<"1", "0", "0">>),
     PyStr(<<"9", ".", "9", "9">>), PyStr(<<"0", ".", "5">>)}

DateTypes == {"date", "datetime"}

InitColumns ==
    /\ InitSelf(BaseConfig([t |-> "int", v |-> 33], DEFAULT_USE_GTID,
                           MYSQL_ENGINE, DEFAULT_SESSION_SQLS))
    /\ stack = <<>>
    /\ ret = NoRet
    /\ faults = 0
    /\ calls = 0
    /\ obs = ObsInit
    /\ export = ExportInit
    /\ \E n \in ColumnNames, t \in ColumnTypes, m \in MaxNums,
          d \in DateTypes :
          arg = [op |-> "get_table_columns",
                 column |-> [column_name |-> n, data_type |-> t[1],
                             column_type |-> t[2]],
                 max_num |-> m, date_type |-> d]

\* the row of the result for the column: its safe_sql_value
GetTableColumns ==
    /\ arg.op = "get_table_columns"
    /\ ret.kind = "none"
    /\ ret' = Val(safe_sql_value(arg.column, arg.max_num, arg.date_type))
    /\ UNCHANGED <<self_vars, sessions, stack, faults, calls, obs, arg, export>>

NextColumns == GetTableColumns

SpecColumns == InitColumns /\ [][NextColumns]_vars

-----------------------------------------------------------------------------
(* The fetch loop of copy_table on small batches: SpecCopy *)

\* copy_table has composed and executed its SELECT on the streaming session
\* and opened the sink: the result set of n rows waits on the cursor and the
\* loop is about to fetch with export_batch_rows = b
InitCopy ==
    /\ \E b \in 1..MaxBatch :
          connection_config =
              [BaseConfig([t |-> "int", v |-> 33], DEFAULT_USE_GTID,
                          MYSQL_ENGINE, DEFAULT_SESSION_SQLS)
                  EXCEPT !.export_batch_rows = b]
    /\ conn = 1
    /\ conn_unbuffered = 2
    /\ is_replica = FALSE
    /\ sessions =
          [k \in 1..2 |->
              NewSession(get_connection_parameters(connection_config, FALSE)[1],
                         FALSE)]
    /\ stack = <<[Frame("copy_table", "fetch") EXCEPT !.sql = SqlSelect]>>
    /\ ret = NoRet
    /\ faults = 0
    /\ calls = 1
    /\ obs = ObsOk(ObsStart, SqlSelect, conn_unbuffered, <<>>)
    /\ arg = ArgOf("copy_table")
    /\ \E n \in 0..MaxCopyRows :
          export = [ExportInit EXCEPT !.cursor = ResultSet(n),
                                      !.result_rows = n,
                                      !.sink = split_gzip_open]

NextCopy ==
    \/ CopyBatch
    \/ CopyBatchRaises

SpecCopy == InitCopy /\ [][NextCopy]_vars

-----------------------------------------------------------------------------
(* Vocabulary of the properties *)

Min(S) == CHOOSE x \in S : \A y \in S : x <= y
Max(S) == CHOOSE x \in S : \A y \in S : x >= y

\* the places of character c in string s
Positions(s, c) == {k \in 1..Len(s) : s[k] = c}

\* the k-th entry of a comma-separated list, as written
RawEntry(g, k) ==
    LET P == Positions(g, ",")
        Nth(n) == CHOOSE q \in P : Cardinality({r \in P : r < q}) = n - 1
        first == IF k = 1 THEN 1 ELSE Nth(k - 1) + 1
        last == IF k = Cardinality(P) + 1 THEN Len(g) ELSE Nth(k) - 1
    IN  SubSeq(g, first, last)

NumEntries(g) == Cardinality(Positions(g, ",")) + 1

\* an entry without the white space around it
Trim(e) ==
    LET N == {k \in 1..Len(e) : ~IsSpace(e[k])}
    IN  IF N = {} THEN <<>> ELSE SubSeq(e, Min(N), Max(N))

\* domain-serverid-sequence
WellFormedMariadb(e) == Cardinality(Positions(Trim(e), "-")) = 2
MatchesMariadb(e, id) ==
    /\ WellFormedMariadb(e)
    /\ LET t == Trim(e)
           D == Positions(t, "-")
       IN  SubSeq(t, Min(D) + 1, Max(D) - 1) = id

\* serveruuid:sequence
WellFormedMysql(e) == Cardinality(Positions(Trim(e), ":")) = 1
MatchesMysql(e, uuid) ==
    /\ WellFormedMysql(e)
    /\ LET t == Trim(e)
           D == Positions(t, ":")
       IN  SubSeq(t, 1, Min(D) - 1) = uuid

\* the places of the entries of g that match
MatchingMariadb(g, id) ==
    {k \in 1..NumEntries(g) : MatchesMariadb(RawEntry(g, k), id)}
MatchingMysql(g, uuid) ==
    {k \in 1..NumEntries(g) : MatchesMysql(RawEntry(g, k), uuid)}

\* the earliest-listed of the entries at places C, or the failure when
\* there is none
EarliestOf(g, C) ==
    IF C = {} THEN Raise("Exception", MsgNoSuitableGtid)
    ELSE Val([gtid |-> Trim(RawEntry(g, Min(C)))])

AllEntries(g) == [k \in 1..NumEntries(g) |-> RawEntry(g, k)]

\* the GTID set with only its well-formed entries
OnlyWellFormedMariadb(g) == Join(SelectSeq(AllEntries(g), WellFormedMariadb))
OnlyWellFormedMysql(g) == Join(SelectSeq(AllEntries(g), WellFormedMysql))

IsGtidShape(r) == r.kind = "val" /\ DOMAIN r.v = {"gtid"}
IsCoordinateShape(r) ==
    r.kind = "val" /\ DOMAIN r.v = {"log_file", "log_pos", "version"}
IsFailure(r, msg) == r.kind = "exc" /\ r.v.cls = "Exception" /\ r.v.msg = msg

\* an exception of the database client or of Python, not raised by the
\* resolver itself
IsPropagated(r) == r.kind = "exc" /\ r.v.cls # "Exception"

Executed(sqls) == {e \in obs.execd : e[1] \in sqls}
Answered(sql) == sql \in DOMAIN obs.res
Rows(sql) == obs.res[sql].rows

QueryDone(n) == Done /\ arg.op = "query" /\ arg.n_retry = n
FetchDone == Done /\ arg.op = "fetch_current_log_pos"

PrimaryParams == get_connection_parameters(connection_config, TRUE)[1]

-----------------------------------------------------------------------------
(* Properties *)

\* C1: query(n_retry=1) whose first execution raises InterfaceError or
\* OperationalError and whose every later attempt succeeds reconnects
\* exactly once (one close_connections, one open_connections) and returns
\* the result of the query; query(n_retry=0) raises that failure and
\* neither closes nor reopens the sessions.
C1_RetryOnce ==
    /\ (QueryDone(1) /\ IsConnectivityClass(obs.first) /\ obs.nFail = 1) =>
          /\ obs.nClose = 1
          /\ obs.nOpen = 1
          /\ ret.kind = "val"
          /\ Answered(SqlUser)
          /\ ret.v = Rows(SqlUser)
    /\ (QueryDone(0) /\ IsConnectivityClass(obs.first)) =>
          /\ ret.kind = "exc"
          /\ ret.v.cls = obs.first
          /\ obs.nClose = 0
          /\ obs.nOpen = 0
          /\ conn = obs.pre.conn
          /\ conn_unbuffered = obs.pre.conn_unbuffered
          /\ Len(sessions) = Len(obs.pre.sessions)
          /\ \A k \in 1..Len(sessions) : sessions[k].st # "closed"
                                         \/ obs.pre.sessions[k].st = "closed"

C1_Witness ==
    /\ QueryDone(1)
    /\ obs.first = "OperationalError"
    /\ obs.nFail = 1
    /\ obs.nOpen = 1
    /\ ret.kind = "val"
    /\ Len(ret.v) > 0

\* C2: a query() call with n_retry = k makes at most k reconnects
\* (open_connections calls), whatever fails.
C2_ReconnectsBounded ==
    arg.op = "query" => obs.nOpen <= arg.n_retry

\* C3: when connected to a replica, the auxiliary connection to the primary
\* is closed by the time __get_primary_server_id / __get_primary_server_uuid
\* is left, by return or by exception.
C3_AuxiliaryClosed ==
    \A a \in 1..Len(sessions) :
        (sessions[a].aux /\ sessions[a].st # "closed") =>
            \E k \in 1..Len(stack) :
                stack[k].op \in PrimaryServerOps /\ stack[k].aux = a

\* C4: when connected to a replica, the server id / UUID handed to the GTID
\* selection is the primary's, also after a retried query.
C4_IdFromPrimary ==
    (is_replica /\ Len(stack) > 0 /\ ret.kind = "val") =>
        /\ Running("find_mariadb_gtid_pos", "wait_id") =>
              ret.v = ServerIdOf(PrimaryParams)
        /\ Running("find_mysql_gtid_pos", "wait_uuid") =>
              ret.v = ServerUuidOf(PrimaryParams)

\* the number a configured port stands for
PortNumber(x) ==
    IF x.t = "int" THEN x.v ELSE CHOOSE n \in 0..99 : IntToStr(n) = x.v

ParamsDone(pp) ==
    /\ ret.kind = "val"
    /\ arg.op = "get_connection_parameters"
    /\ arg.prioritize_primary = pp

\* C5: with any replica field present in the configuration,
\* get_connection_parameters(prioritize_primary=False) returns the replica
\* value of every present replica field and is_replica = True.
C5_ReplicaPreferred ==
    (ParamsDone(FALSE) /\ DOMAIN connection_config \cap ReplicaKeys # {}) =>
        /\ ret.v[2] = TRUE
        /\ "replica_host" \in DOMAIN connection_config =>
              ret.v[1].host = connection_config["replica_host"]
        /\ "replica_port" \in DOMAIN connection_config =>
              ret.v[1].port = PortNumber(connection_config["replica_port"])
        /\ "replica_user" \in DOMAIN connection_config =>
              ret.v[1].user = connection_config["replica_user"]
        /\ "replica_password" \in DOMAIN connection_config =>
              ret.v[1].password = connection_config["replica_password"]

C6_ReturnsPrimary ==
    ParamsDone(TRUE) =>
        /\ ret.v[1].host = connection_config["host"]
        /\ ret.v[1].port = PortNumber(connection_config["port"])
        /\ ret.v[1].user = connection_config["user"]
        /\ ret.v[1].password = connection_config["password"]
        /\ ret.v[2] = FALSE

\* C6: for every configuration, get_connection_parameters(
\* prioritize_primary=True) returns the primary host, port, user and
\* password and is_replica = False, and the call leaves connection_config,
\* conn, conn_unbuffered and is_replica as they were.
C6_PrimaryWhenPrioritized ==
    /\ []C6_ReturnsPrimary
    /\ [][ParamsDone(TRUE)' => UNCHANGED <<self_vars, sessions>>]_vars

C6_Witness ==
    /\ ParamsDone(TRUE)
    /\ ReplicaKeys \subseteq DOMAIN connection_config
    /\ connection_config["port"].t = "str"
    /\ conn # 0
    /\ is_replica

\* the statement that reads the GTID position, and what it answered
PositionSql ==
    IF ~is_mariadb(connection_config) THEN SqlGtidExecuted
    ELSE IF obs.pre.is_replica THEN SqlGtidSlavePos ELSE SqlGtidCurrentPos

\* the server reported a GTID set that has the returned entry
ReportedEntry(gtid) ==
    /\ Answered(PositionSql)
    /\ Len(Rows(PositionSql)) > 0
    /\ ~Rows(PositionSql)[1]["current_gtids"].none
    /\ LET g == Rows(PositionSql)[1]["current_gtids"].s
       IN  \E k \in 1..NumEntries(g) :
              /\ Trim(RawEntry(g, k)) = gtid
              /\ IF is_mariadb(connection_config)
                 THEN WellFormedMariadb(RawEntry(g, k))
                 ELSE WellFormedMysql(RawEntry(g, k))

\* the server reported no GTID support
NoGtidSupport ==
    \/ /\ ~is_mariadb(connection_config)
       /\ Answered(SqlGtidMode)
       /\ \A k \in 1..Len(Rows(SqlGtidMode)) :
             Rows(SqlGtidMode)[k]["gtid_mode"] # "ON"
    \/ /\ Answered(PositionSql)
       /\ Len(Rows(PositionSql)) = 0

\* C7: fetch_current_log_pos gives one result shape per call: {gtid} only
\* when use_gtid is set and the server reported a GTID set with that entry;
\* without use_gtid no GTID variable is queried and the result is a
\* {log_file, log_pos, version} coordinate or the failure 'MySQL binary
\* logging is not enabled.' (or the failure of the status query itself);
\* with use_gtid and no GTID support the call fails, and a call with
\* use_gtid never reads the binlog status.
C7_OneShape ==
    FetchDone =>
        /\ ret.kind = "val" => IsGtidShape(ret) # IsCoordinateShape(ret)
        /\ IsGtidShape(ret) =>
              connection_config["use_gtid"] /\ ReportedEntry(ret.v.gtid)
        /\ ~connection_config["use_gtid"] =>
              /\ Executed(GtidSqls \cup {SqlServerId, SqlServerUuid}) = {}
              /\ \/ IsCoordinateShape(ret)
                 \/ IsFailure(ret, MsgBinlogNotEnabled)
                 \/ IsPropagated(ret)
        /\ connection_config["use_gtid"] =>
              /\ Executed(StatusSqls) = {}
              /\ ~IsCoordinateShape(ret)
              /\ NoGtidSupport => ret.kind = "exc"

C7_Witness ==
    /\ FetchDone
    /\ connection_config["use_gtid"]
    /\ IsGtidShape(ret)
    /\ obs.nFail = 0

\* C8: the GTID selection returns the earliest-listed entry that has three
\* '-'-separated segments with the server id in the middle (MariaDB) or two
\* ':'-separated segments with the UUID first (MySQL), and fails with 'No
\* suitable GTID was found.' when there is none; entries with another
\* segment count and empty entries do not change the selection.
C8_EarliestWellFormed ==
    ret.kind # "none" =>
        /\ arg.op = "find_mariadb_gtid_pos" =>
              /\ ret = EarliestOf(arg.gtids.s,
                                 MatchingMariadb(arg.gtids.s, arg.id))
              /\ ret = find_mariadb_gtid(
                     PyStr(OnlyWellFormedMariadb(arg.gtids.s)),
                     arg.id)
        /\ arg.op = "find_mysql_gtid_pos" =>
              /\ ret = EarliestOf(arg.gtids.s,
                                 MatchingMysql(arg.gtids.s, arg.id))
              /\ ret = find_mysql_gtid(
                     PyStr(OnlyWellFormedMysql(arg.gtids.s)),
                     arg.id)

\* a malformed entry that carries the id, then two matching entries: the
\* first of the two is returned
C8_Witness ==
    /\ arg.op = "find_mariadb_gtid_pos"
    /\ ret.kind = "val"
    /\ NumEntries(arg.gtids.s) = 3
    /\ ~WellFormedMariadb(RawEntry(arg.gtids.s, 1))
    /\ Len(RawEntry(arg.gtids.s, 1)) > 0
    /\ MatchesMariadb(RawEntry(arg.gtids.s, 2), arg.id)
    /\ MatchesMariadb(RawEntry(arg.gtids.s, 3), arg.id)
    /\ RawEntry(arg.gtids.s, 2) # RawEntry(arg.gtids.s, 3)
    /\ ret.v.gtid = RawEntry(arg.gtids.s, 2)

\* the GTID position is empty or absent: no row, NULL or ''
PositionEmpty ==
    /\ Answered(PositionSql)
    /\ \/ Len(Rows(PositionSql)) = 0
       \/ Rows(PositionSql)[1]["current_gtids"].none
       \/ Len(Rows(PositionSql)[1]["current_gtids"].s) = 0

NotEnabledMessages == {MsgGtidNotEnabled, MsgGtidModeNotEnabled, MsgNoGtidExecuted}

\* C9: GTID resolution fails with a 'not enabled' failure, never with 'No
\* suitable GTID was found.', when the position query gives no row, NULL or
\* ''; it fails with 'No suitable GTID was found.' when the position is a
\* non-empty set without an entry for the primary's id / UUID.
C9_NotEnabledDistinct ==
    (FetchDone /\ connection_config["use_gtid"] /\ obs.nFail = 0
        /\ Answered(PositionSql)) =>
        /\ PositionEmpty =>
              /\ ret.kind = "exc"
              /\ ret.v.cls = "Exception"
              /\ ret.v.msg \in NotEnabledMessages
        /\ (~PositionEmpty /\ ret.kind = "exc") =>
              IsFailure(ret, MsgNoSuitableGtid)

\* C10: with GTID mode off, _get_binlog_coordinates issues 'SHOW SLAVE
\* STATUS' when is_replica and 'SHOW MASTER STATUS' otherwise; an empty
\* result fails with 'MySQL binary logging is not enabled.'; otherwise the
\* result is log_file / log_pos from the first row's Master_Log_File /
\* Read_Master_Log_Pos (replica) or File / Position (primary) and version
\* from the row's 'version', 1 when the row has none.
C10_BinlogCoordinates ==
    (FetchDone /\ ~connection_config["use_gtid"]) =>
        LET replica == obs.pre.is_replica
            sql == IF replica THEN SqlSlaveStatus ELSE SqlMasterStatus
            other == IF replica THEN SqlMasterStatus ELSE SqlSlaveStatus
        IN  /\ Executed({other}) = {}
            /\ obs.pre.conn # 0 => Executed({sql}) # {}
            /\ ~IsPropagated(ret) =>
                  /\ Answered(sql)
                  /\ Len(Rows(sql)) = 0 => IsFailure(ret, MsgBinlogNotEnabled)
                  /\ Len(Rows(sql)) > 0 =>
                        LET row == Rows(sql)[1]
                        IN  /\ IsCoordinateShape(ret)
                            /\ ret.v.log_file =
                                  IF replica
                                  THEN GetOrNone(row, "Master_Log_File")
                                  ELSE GetOrNone(row, "File")
                            /\ ret.v.log_pos =
                                  IF replica
                                  THEN GetOrNone(row, "Read_Master_Log_Pos")
                                  ELSE GetOrNone(row, "Position")
                            /\ "version" \in DOMAIN row =>
                                  ret.v.version = row["version"]
                            /\ "version" \notin DOMAIN row =>
                                  ret.v.version = 1

C10_Witness ==
    /\ FetchDone
    /\ ~connection_config["use_gtid"]
    /\ obs.pre.is_replica
    /\ IsCoordinateShape(ret)
    /\ ret.v.log_file = "binlog.000007"
    /\ ret.v.log_pos = "120"
    /\ ret.v.version = 1

OpenDone == Done /\ arg.op = "open_connections"

\* C11: a session statement that the server rejects (InternalError) never
\* makes open_connections fail, and when open_connections returns every
\* statement of session_sqls has been executed on the buffered and on the
\* streaming session, also the statement that was rejected.
C11_SessionSqlsOnBoth ==
    OpenDone =>
        /\ ret.kind = "exc" => ret.v.cls # "InternalError"
        /\ ret.kind = "val" =>
              \A i \in 1..Len(session_sqls_of(connection_config)) :
                  LET sql == session_sqls_of(connection_config)[i]
                  IN  /\ <<sql, conn>> \in obs.execd
                      /\ <<sql, conn_unbuffered>> \in obs.execd

CloseDone == Done /\ arg.op = "close_connections"

\* a session that close() raises on: it was never opened or is closed
NotClosable(ss, c) == c = 0 \/ ss[c].st = "closed"

\* C12: close_connections returns normally for silent = True and False and
\* for every state of the two sessions (open, closed before, never opened);
\* with silent = True it logs nothing, with silent = False it logs the
\* failure exactly when closing one of the sessions failed.
C12_CloseNeverRaises ==
    CloseDone =>
        /\ ret = Val("None")
        /\ arg.silent => obs.closeLog = 0
        /\ ~arg.silent =>
              obs.closeLog =
                 IF \/ NotClosable(obs.pre.sessions, obs.pre.conn)
                    \/ NotClosable(obs.pre.sessions, obs.pre.conn_unbuffered)
                 THEN 1 ELSE 0

\* a second close_connections(silent=True) on sessions closed before
C12_Witness ==
    /\ CloseDone
    /\ arg.silent
    /\ obs.pre.conn # 0
    /\ obs.pre.sessions[obs.pre.conn].st = "closed"
    /\ obs.pre.conn_unbuffered # 0
    /\ obs.closeLog = 0

CopyDone == Done /\ arg.op = "copy_table"

\* the statements executed on session c during the current call
ExecutedOn(c) == {e \in obs.execd : e[2] = c}

\* C13: copy_table fails with 'db.t table not found.' exactly when the
\* column introspection answers zero rows; then the SELECT has not been
\* executed and the sink has not been opened, and the failure itself causes
\* no reconnect or retry: without a failure of the introspection query
\* there is one execution, on the buffered session, and no close or open.
C13_TableNotFound ==
    CopyDone =>
        /\ (Answered(SqlColumns) /\ Len(Rows(SqlColumns)) = 0) <=>
              IsFailure(ret, MsgTableNotFound)
        /\ IsFailure(ret, MsgTableNotFound) =>
              /\ Executed({SqlSelect}) = {}
              /\ export = ExportInit
              /\ obs.nFail = 0 =>
                    /\ obs.nOpen = 0
                    /\ obs.nClose = 0
                    /\ obs.nExec = 1
                    /\ obs.execd = {<<SqlColumns, obs.pre.conn>>}
                    /\ sessions = obs.pre.sessions
                    /\ conn = obs.pre.conn
                    /\ conn_unbuffered = obs.pre.conn_unbuffered

C13_Witness ==
    /\ CopyDone
    /\ IsFailure(ret, MsgTableNotFound)
    /\ obs.nFail = 0
    /\ conn_unbuffered # 0
    /\ sessions[conn_unbuffered].st = "open"
    /\ ExecutedOn(conn_unbuffered) = {}

\* C14: the sink of copy_table is open only inside the fetch loop: when the
\* call is left, at the end of the loop or by an exception of a fetch or of
\* a write, a sink that was opened is closed.
C14_SinkClosed ==
    /\ export.sink = "open" => Running("copy_table", "fetch")
    /\ CopyDone =>
          export.sink = IF Answered(SqlSelect) THEN "closed" ELSE "none"

\* a batch was written, then the next fetch or write raised
C14_Witness ==
    /\ CopyDone
    /\ ret.kind = "exc"
    /\ Len(export.written) > 0
    /\ export.sink = "closed"

\* C15: when the execution of copy_table's SELECT on the streaming session
\* raises InterfaceError or OperationalError, the sessions are closed and
\* reopened and the SELECT is executed again before copy_table fails.
C15_SelectRetried ==
    (CopyDone /\ ret.kind = "exc" /\ IsConnectivityClass(ret.v.cls)
        /\ Executed({SqlSelect}) # {} /\ export.sink = "none") =>
        /\ obs.nClose >= 1
        /\ obs.nOpen >= 1
        /\ Cardinality(Executed({SqlSelect})) >= 2

\* the rules in their order: the types, full types or name each one names
RuleMatches(k, c) ==
    CASE k = 1 -> c.data_type \in {"blob", "tinyblob", "mediumblob", "longblob"}
      [] k = 2 -> c.data_type \in {"binary", "varbinary"}
      [] k = 3 -> c.data_type = "bit"
      [] k = 4 -> c.data_type = "date"
      [] k = 5 -> c.data_type \in {"datetime", "timestamp"}
      [] k = 6 -> c.column_type = "tinyint(1)"
      [] k = 7 -> c.data_type \in {"geometry", "point", "linestring",
                                   "polygon", "multipoint", "multilinestring",
                                   "multipolygon", "geometrycollection"}
      [] k = 8 -> c.column_name = "raw_data_hash"
      [] k = 9 -> c.data_type \in {"double", "numeric", "float", "decimal",
                                   "real"}
      [] k = 10 -> c.data_type \in {"smallint", "integer", "bigint",
                                    "mediumint", "int"}
      [] k = 11 -> TRUE

FirstRule(c) == Min({k \in 1..11 : RuleMatches(k, c)})

\* how the expression of each rule begins
RuleHead(k, bounded) ==
    CASE k = 1 -> "REPLACE(hex("
      [] k = 2 -> "REPLACE(REPLACE(hex(trim(trailing CHAR(0x00) from "
      [] k = 3 -> "cast("
      [] k = 4 -> "nullif(CAST("
      [] k = 5 -> "nullif("
      [] k = 6 -> "CASE WHEN "
      [] k = 7 -> "ST_AsGeoJSON("
      [] k = 8 -> "REPLACE(REPLACE(hex("
      [] k = 9 -> IF bounded THEN "GREATEST(LEAST(" ELSE BackQuote
      [] k = 10 -> BackQuote
      [] k = 11 -> "REPLACE(REPLACE(REPLACE(cast("

\* the digits of a bound after its decimal point
Scale(b) ==
    IF Positions(b, ".") = {} THEN 0 ELSE Len(b) - Min(Positions(b, "."))

ColumnsDone == arg.op = "get_table_columns" /\ ret.kind = "val"

\* C16: the expression of a column is that of the first rule, in the order
\* blob family, binary/varbinary, bit, date, datetime/timestamp, full type
\* tinyint(1), geometry family, name raw_data_hash, floating/fixed numeric,
\* integer family, text cast, that the column matches; with a bound B a
\* floating/fixed numeric column gets GREATEST(LEAST(B, ROUND(col, scale of
\* B)), -B) and an integer column the bare column reference, without a
\* bound both get the bare column reference.
C16_FirstRuleWins ==
    ColumnsDone =>
        LET c == arg.column
            bounded == ~arg.max_num.none /\ arg.max_num.s # <<>>
            bare == <<BackQuote, c.column_name, BackQuote>>
        IN  /\ ret.v[1] = RuleHead(FirstRule(c), bounded)
            /\ FirstRule(c) = 10 => ret.v = bare
            /\ (FirstRule(c) = 9 /\ ~bounded) => ret.v = bare
            /\ (FirstRule(c) = 9 /\ bounded) =>
                  ret.v = <<"GREATEST(LEAST(">> \o arg.max_num.s
                             \o <<", ROUND(">> \o bare \o <<", ">>
                             \o IntToStr(Scale(arg.max_num.s))
                             \o <<")), -">> \o arg.max_num.s \o <<")">>
            /\ FirstRule(c) = 4 => \E k \in 1..Len(ret.v) :
                                      ret.v[k] = arg.date_type

\* a decimal column named raw_data_hash with the bound '9.99': the name rule
\* comes first
C16_Witness ==
    /\ ColumnsDone
    /\ arg.column.column_name = "raw_data_hash"
    /\ arg.column.data_type = "decimal"
    /\ arg.max_num = PyStr(<<"9", ".", "9", "9">>)
    /\ ret.v[1] = "REPLACE(REPLACE(hex("

\* exceptions of an execution that are not InterfaceError / OperationalError
OtherClasses == {"InternalError", "ProgrammingError", "AttributeError"}

\* the failures the class raises itself about the configuration or state
StateFailures ==
    {MsgBinlogNotEnabled, MsgGtidNotEnabled, MsgGtidModeNotEnabled,
     MsgNoGtidExecuted, MsgNoSuitableGtid, MsgTableNotFound}

\* the sessions of the instance are the ones it had when the call started
SameSessions ==
    /\ conn = obs.pre.conn
    /\ conn_unbuffered = obs.pre.conn_unbuffered
    /\ is_replica = obs.pre.is_replica

\* C17: a failure that is not of the connectivity class is surfaced at
\* once.  A query(n_retry = n) whose execution raises another exception
\* raises it after that one execution, for every n, with no
\* close_connections and no open_connections; the same holds when that
\* execution is the first one of fetch_current_log_pos or copy_table; and a
\* call that fails with 'binary logging is not enabled', 'GTID (mode) is not
\* enabled', 'No suitable GTID was found' or 'table not found' after
\* executions that all succeeded has executed every statement once and has
\* neither closed nor reopened the sessions.
C17_NoRetryOfOtherFailures ==
    /\ (Done /\ arg.op \in {"query", "fetch_current_log_pos", "copy_table"}
           /\ obs.first \in OtherClasses) =>
          /\ ret = Raise(obs.first, "")
          /\ obs.nFail = 1
          /\ obs.nExec <= 1
          /\ obs.nOpen = 0
          /\ obs.nClose = 0
          /\ SameSessions
    /\ (Done /\ ret.kind = "exc" /\ ret.v.cls = "Exception"
           /\ obs.nFail = 0) =>
          /\ ret.v.msg \in StateFailures
          /\ obs.nExec = Cardinality(obs.execd)
          /\ obs.nOpen = 0
          /\ obs.nClose = 0
          /\ SameSessions

C17_Witness ==
    /\ QueryDone(1)
    /\ obs.first = "InternalError"
    /\ obs.nExec = 1
    /\ ret.kind = "exc"

\* a session the instance held when the call started and holds no more
Replaced(k) == k \in {obs.pre.conn, obs.pre.conn_unbuffered} \ {0, conn, conn_unbuffered}

\* C18: when close_connections has run, close() has been called on the
\* buffered and on the streaming session the instance holds, also when
\* closing the buffered one failed; so the streaming session is not open
\* after close_connections, and a session that query()'s reconnect replaced
\* is not open.
C18_BothCloseAttempted ==
    /\ obs.closeOn \subseteq obs.closeTried
    /\ CloseDone =>
          conn_unbuffered = 0 \/ sessions[conn_unbuffered].st # "open"
    /\ arg.op = "query" =>
          \A k \in 1..Len(sessions) : Replaced(k) => sessions[k].st # "open"

\* the call in progress or finished is MySQL GTID resolution
MysqlGtidCall ==
    /\ arg.op = "fetch_current_log_pos"
    /\ connection_config["use_gtid"]
    /\ ~is_mariadb(connection_config)

\* 'select @@gtid_mode' answered a row that reads 'ON'
GtidModeOn ==
    /\ Answered(SqlGtidMode)
    /\ Len(Rows(SqlGtidMode)) > 0
    /\ "gtid_mode" \in DOMAIN Rows(SqlGtidMode)[1]
    /\ Rows(SqlGtidMode)[1]["gtid_mode"] = "ON"

\* the auxiliary connections opened since the call started
NewAuxiliary ==
    {k \in (Len(obs.pre.sessions) + 1)..Len(sessions) : sessions[k].aux}

\* C19: in MySQL GTID resolution nothing comes before the GTID-mode check:
\* @@GLOBAL.gtid_executed and @@server_uuid are executed and an auxiliary
\* connection is opened only after 'select @@gtid_mode' answered 'ON'; when
\* it answers no row or another value the call fails with 'GTID mode is not
\* enabled.' having done none of these.
C19_GtidModeFirst ==
    MysqlGtidCall =>
        /\ ~GtidModeOn =>
              /\ Executed({SqlGtidExecuted, SqlServerUuid}) = {}
              /\ NewAuxiliary = {}
        /\ (Done /\ Answered(SqlGtidMode) /\ ~GtidModeOn) =>
              IsFailure(ret, MsgGtidModeNotEnabled)

C19_Witness ==
    /\ MysqlGtidCall
    /\ Done
    /\ obs.pre.is_replica
    /\ Answered(SqlGtidMode)
    /\ Len(Rows(SqlGtidMode)) > 0
    /\ Rows(SqlGtidMode)[1]["gtid_mode"] = "OFF"
    /\ IsFailure(ret, MsgGtidModeNotEnabled)

\* __get_primary_server_id / __get_primary_server_uuid has just been left
AfterPrimaryServer ==
    /\ ret.kind # "none"
    /\ \/ Running("find_mariadb_gtid_pos", "wait_id")
       \/ Running("find_mysql_gtid_pos", "wait_uuid")

\* nothing was opened or closed since the resolution of the primary server
\* id / UUID started, and the instance holds the same sessions
NothingOpenedOrClosed ==
    /\ Len(sessions) = Len(obs.idPre.sessions)
    /\ \A k \in 1..Len(sessions) :
          sessions[k].st = "closed" => obs.idPre.sessions[k].st = "closed"
    /\ obs.nOpen = obs.idPre.nOpen
    /\ obs.nClose = obs.idPre.nClose
    /\ conn = obs.idPre.conn
    /\ conn_unbuffered = obs.idPre.conn_unbuffered

\* C20 as claimed: connected to the primary, resolving the primary server id
\* or UUID opens and closes no connection, runs its query on the buffered
\* session only, and leaves conn, conn_unbuffered and is_replica as they
\* were.
C20_NoConnectionChange ==
    (AfterPrimaryServer /\ ~obs.idPre.is_replica) =>
        /\ NothingOpenedOrClosed
        /\ is_replica = obs.idPre.is_replica
        /\ \A e \in Executed({SqlServerId, SqlServerUuid}) :
              e[2] = obs.idPre.conn

\* C20 amended: connected to the primary, resolving the primary server id or
\* UUID opens no auxiliary connection and runs its query on the buffered
\* session self.conn only; is_replica stays as it was; and unless a
\* connectivity failure of that query made query() close and reopen the
\* sessions, no connection was opened or closed and conn and conn_unbuffered
\* are as they were.
C20_NoAuxiliaryOnPrimary ==
    (AfterPrimaryServer /\ ~obs.idPre.is_replica) =>
        /\ \A k \in (Len(obs.idPre.sessions) + 1)..Len(sessions) :
              ~sessions[k].aux
        /\ is_replica = obs.idPre.is_replica
        /\ \A e \in Executed({SqlServerId, SqlServerUuid}) :
              e[2] \in {obs.idPre.conn, conn}
        /\ obs.nFail = obs.idPre.nFail => NothingOpenedOrClosed
        /\ obs.nOpen > obs.idPre.nOpen => obs.nFail > obs.idPre.nFail

\* on the primary, the id query was retried after a reconnect and answered
C20_Witness ==
    /\ AfterPrimaryServer
    /\ ~obs.idPre.is_replica
    /\ ret.kind = "val"
    /\ obs.nOpen > obs.idPre.nOpen
    /\ conn # obs.idPre.conn
    /\ <<SqlServerId, conn>> \in obs.execd

\* the batch size and the result set of the fetch loop
BatchSize == connection_config["export_batch_rows"]
LoopRunning == Running("copy_table", "fetch") /\ ret.kind = "none"
LoopEnded == CopyDone /\ ret.kind = "val"

\* the fetches that returned exactly BatchSize rows, fewer rows, and the
\* places of the progress and total messages in the log
FullFetches == {k \in 1..Len(export.fetched) :
                   Len(export.fetched[k]) = BatchSize}
PartialFetches == {k \in 1..Len(export.fetched) :
                      /\ Len(export.fetched[k]) > 0
                      /\ Len(export.fetched[k]) < BatchSize}
ProgressAt == {j \in 1..Len(export.log) : export.log[j].kind = "progress"}
TotalAt == {j \in 1..Len(export.log) : export.log[j].kind = "total"}

\* the progress message of a full batch: the rows before it, the rows
\* through it
ProgressOf(batch) == LogProgress(batch[1] - 1, batch[Len(batch)])

\* C21: with batch size B over N rows, one progress message is logged for
\* each fetched batch of exactly B rows and none for a smaller batch; the
\* total message is logged once, when the loop has ended, as the last
\* message and with the value N, and never before.
C21_ProgressPerFullBatch ==
    /\ Cardinality(ProgressAt) = Cardinality(FullFetches)
    /\ \A k \in FullFetches :
          Cardinality({j \in ProgressAt :
                          export.log[j] = ProgressOf(export.fetched[k])}) = 1
    /\ TotalAt # {} => LoopEnded
    /\ LoopEnded =>
          /\ TotalAt = {Len(export.log)}
          /\ export.log[Len(export.log)] = LogTotal(export.result_rows)

\* the loop ended after two full batches and a smaller last one
C21_Witness ==
    /\ LoopEnded
    /\ Cardinality(FullFetches) = 2
    /\ PartialFetches # {}
    /\ Cardinality(ProgressAt) = 2
    /\ Cardinality(TotalAt) = 1

\* the rows of the fetched batches, one after the other
RECURSIVE RowsOf(_)
RowsOf(batches) ==
    IF Len(batches) = 0 THEN <<>>
    ELSE RowsOf(SubSeq(batches, 1, Len(batches) - 1))
            \o batches[Len(batches)]

EmptyFetches == {k \in 1..Len(export.fetched) : Len(export.fetched[k]) = 0}

\* what holds of the loop in every state
LoopExports ==
    /\ export.exported_rows = Len(RowsOf(export.fetched))
    /\ RowsOf(export.fetched) \o export.cursor = ResultSet(export.result_rows)
    /\ ret.kind # "exc" => export.written = RowsOf(export.fetched)
    /\ LoopRunning => EmptyFetches = {}
    /\ LoopEnded =>
          /\ EmptyFetches = {Len(export.fetched)}
          /\ export.exported_rows = export.result_rows
          /\ export.written = ResultSet(export.result_rows)

\* one round of the loop either leaves the loop or takes at least one row
\* off the finite result set, so the loop cannot go on for ever
LoopAdvances ==
    LoopRunning =>
        \/ ~LoopRunning'
        \/ Len(export'.cursor) < Len(export.cursor)

\* C22: for every result set of N >= 0 rows and batch size B >= 1 the fetch
\* loop comes to an end (every round that stays in the loop shortens what
\* is left of the result set); it ends normally at the first fetch that
\* returns no rows; the rows written are the rows fetched, each once and in
\* fetch order; exported_rows is the number of rows fetched so far at every
\* iteration and N at the end.
C22_LoopExportsAll == [](LoopExports) /\ [][LoopAdvances]_vars

\* the loop ended after three fetches with rows and one without, all five
\* rows written
C22_Witness ==
    /\ LoopEnded
    /\ Len(export.fetched) = 4
    /\ BatchSize = 2
    /\ export.written = ResultSet(5)
    /\ export.exported_rows = 5

\* open_connections has just returned normally: to the caller of the class
\* or into the except branch of query()
OpenReturned ==
    /\ ret.kind = "val"
    /\ OpenDone \/ Running("query", "wait_open")

\* C23: when open_connections returns normally, also inside query()'s
\* retry, is_replica is the flag of get_connection_parameters(False), conn
\* and conn_unbuffered are two sessions created by this open_connections,
\* and every session statement has been issued on both of them while no
\* other statement has yet been executed on them.
C23_FreshInitializedSessions ==
    OpenReturned =>
        /\ is_replica = get_connection_parameters(connection_config, FALSE)[2]
        /\ conn > obs.openBase
        /\ conn_unbuffered > obs.openBase
        /\ conn # conn_unbuffered
        /\ \A i \in 1..Len(session_sqls_of(connection_config)) :
              LET sql == session_sqls_of(connection_config)[i]
              IN  /\ <<sql, conn>> \in obs.execd
                  /\ <<sql, conn_unbuffered>> \in obs.execd
        /\ \A e \in ExecutedOn(conn) \cup ExecutedOn(conn_unbuffered) :
              \E i \in 1..Len(session_sqls_of(connection_config)) :
                  e[1] = session_sqls_of(connection_config)[i]

====
